---- MODULE Spec2Model ----
(***************************************************************************)
(* Model of QAClipboard.py: the loader of dict_qa.txt (_Main.__dict_init), *)
(* the construction of ClipboardMonitor, and its poll loop                 *)
(* (start_monitoring / check_clipboard) running beside other writers of    *)
(* the system clipboard.                                                   *)
(*                                                                         *)
(* Python values are encoded as TLA+ strings: the members of Text are the  *)
(* Python strs of the model, NonStr is a value that is no str (an int of   *)
(* the JSON file).  A Python object that may or may not be a dict is a     *)
(* record [isdict, items].                                                 *)
(***************************************************************************)
EXTENDS Naturals, FiniteSets, TLC

\* The largest number of entries of a mapping of the model.
MaxEntries == 2

\* The 'NA' literal of check_clipboard, the marker written for an unknown text.
NA == "NA"

\* str(): the empty text.
EmptyStr == ""

\* The texts of the model: the empty text, two ordinary texts and 'NA'.
Text == {EmptyStr, "q", "a", NA}

\* A value that is not a str.
NonStr == "int:1"

\* isinstance(v, str)
isinstance_str(v) == v \in Text

\* The functions from at most MaxEntries members of K into V.
Maps(K, V) == UNION {[D -> V] : D \in {S \in SUBSET K : Cardinality(S) <= MaxEntries}}

\* A Python object: a dict with its items, or something that is no dict.
Dict(items) == [isdict |-> TRUE, items |-> items]
\* The empty dict's items.
EmptyMap == [k \in {} |-> EmptyStr]

NotADict == [isdict |-> FALSE, items |-> EmptyMap]

\* What dict_qa.txt can be when the class Main is created: missing, not JSON
\* (after the quotes are replaced), a JSON scalar, a JSON array that is no
\* sequence of pairs, or a JSON object (its keys are strs, its values need
\* not be).
Files ==
    {[kind |-> k, items |-> EmptyMap] : k \in {"missing", "malformed", "scalar", "badseq"}}
    \cup {[kind |-> "object", items |-> m] : m \in Maps(Text, Text \cup {NonStr})}

\* What a caller other than Main.main can pass to ClipboardMonitor that the
\* loader cannot produce: no dict at all, or a dict with a key that is no str.
ForeignArgs ==
    {NotADict} \cup {Dict(m) : m \in {f \in Maps({"q", NonStr}, {"a"}) : NonStr \in DOMAIN f}}

VARIABLES
    pc,           \* where the program is
    file,         \* dict_qa.txt
    Main_dict_qa, \* the class attribute Main.dict_qa
    arg,          \* the argument of ClipboardMonitor(...)
    dict_qa,      \* self.__dict_qa
    answers,      \* self.__answers
    prev_data,    \* self.__prev_data
    new_data,     \* the local new_data of check_clipboard
    clipboard,    \* the system clipboard
    wrote,        \* the running or last check_clipboard call has called pyperclip.copy
    own,          \* the clipboard's content was last written by the monitor
    phase,        \* how far the clipboard's use has come (see below)
    interrupted,  \* a KeyboardInterrupt was delivered
    extActive     \* other clipboard writers have not stopped for good

vars == <<pc, file, Main_dict_qa, arg, dict_qa, answers, prev_data, new_data,
          clipboard, wrote, own, phase, interrupted, extActive>>

\* phase: "init"      the monitor has not touched the clipboard;
\*        "pristine"  constructed, no text copied by anyone else since;
\*        "first"     exactly one text was copied since construction, and no
\*                    check has read the clipboard after it;
\*        "firstRead" a check has read the clipboard after that one copy and
\*                    has not decided yet;
\*        "firstDone" that check has returned, and nothing has touched the
\*                    clipboard since;
\*        "later"     anything after that.
Phases == {"init", "pristine", "first", "firstRead", "firstDone", "later"}

Loop == {"check", "decide", "sleep"}

TypeOK ==
    /\ pc \in {"import", "main", "construct", "error", "done"} \cup Loop
    /\ prev_data \in Text /\ new_data \in Text /\ clipboard \in Text
    /\ answers \subseteq Text
    /\ wrote \in BOOLEAN /\ own \in BOOLEAN
    /\ interrupted \in BOOLEAN /\ extActive \in BOOLEAN
    /\ phase \in Phases

----------------------------------------------------------------------------
\* Pure parts of the code.

\* _Main.__dict_init: dict(json.loads(text)). ok = FALSE stands for the
\* exception that leaves it (ValueError, also json's JSONDecodeError).
dict_init(f) ==
    IF f.kind = "object"
    THEN [ok |-> TRUE, value |-> Dict(f.items)]
    ELSE [ok |-> FALSE, value |-> NotADict]

\* The validation of ClipboardMonitor.__init__: TRUE iff no TypeError is raised.
valid_dict_qa(d) ==
    /\ d.isdict
    /\ \A k \in DOMAIN d.items : isinstance_str(k) /\ isinstance_str(d.items[k])

\* set(dict_qa.values())
values(m) == {m[k] : k \in DOMAIN m}

\* A faulty variant of get: the marker is returned for every text.
get_AlwaysNA(m, t) == NA

\* A faulty variant of get: an unknown text is returned as it is.
get_Echo(m, t) == IF t \in DOMAIN m THEN m[t] ELSE t

\* dict_qa.get(t, 'NA')
get(m, t) == IF t \in DOMAIN m THEN m[t] ELSE NA

----------------------------------------------------------------------------
Init ==
    /\ pc = "import"
    /\ file \in Files
    /\ Main_dict_qa = NotADict
    /\ arg = NotADict
    /\ dict_qa = EmptyMap
    /\ answers = {}
    /\ prev_data = EmptyStr
    /\ new_data = EmptyStr
    /\ clipboard \in Text
    /\ wrote = FALSE
    /\ own = FALSE
    /\ phase = "init"
    /\ interrupted = FALSE
    /\ extActive = TRUE

\* class Main(metaclass=_Main): _Main.__new__ loads dict_qa.txt into
\* Main.dict_qa, or raises.
Main_new ==
    /\ pc = "import"
    /\ LET r == dict_init(file) IN
          IF r.ok
          THEN /\ Main_dict_qa' = r.value
               /\ pc' = "main"
          ELSE /\ pc' = "error"
               /\ UNCHANGED Main_dict_qa
    /\ UNCHANGED <<file, arg, dict_qa, answers, prev_data, new_data, clipboard,
                   wrote, own, phase, interrupted, extActive>>

\* Main.main: ClipboardMonitor(cls.dict_qa)
Main_main ==
    /\ pc = "main"
    /\ arg' = Main_dict_qa
    /\ pc' = "construct"
    /\ UNCHANGED <<file, Main_dict_qa, dict_qa, answers, prev_data, new_data,
                   clipboard, wrote, own, phase, interrupted, extActive>>

\* Another caller: ClipboardMonitor(x) with an x the loader cannot produce.
ForeignCall ==
    /\ pc = "main"
    /\ arg' \in ForeignArgs
    /\ pc' = "construct"
    /\ UNCHANGED <<file, Main_dict_qa, dict_qa, answers, prev_data, new_data,
                   clipboard, wrote, own, phase, interrupted, extActive>>

\* A faulty variant of ClipboardMonitor_init: the clipboard is cleared before the
\* argument is validated.
ClipboardMonitor_init_ClearFirst ==
    /\ pc = "construct"
    /\ clipboard' = EmptyStr
    /\ own' = TRUE
    /\ phase' = "pristine"
    /\ IF valid_dict_qa(arg)
       THEN /\ dict_qa' = arg.items
            /\ answers' = values(arg.items)
            /\ prev_data' = EmptyStr
            /\ pc' = "check"
       ELSE /\ pc' = "error"
            /\ UNCHANGED <<dict_qa, answers, prev_data>>
    /\ UNCHANGED <<file, Main_dict_qa, arg, new_data, wrote, interrupted, extActive>>

\* A faulty variant of ClipboardMonitor_init: the clipboard is not cleared.
ClipboardMonitor_init_NoClear ==
    /\ pc = "construct"
    /\ IF valid_dict_qa(arg)
       THEN /\ dict_qa' = arg.items
            /\ answers' = values(arg.items)
            /\ prev_data' = EmptyStr
            /\ phase' = "pristine"
            /\ pc' = "check"
       ELSE /\ pc' = "error"
            /\ UNCHANGED <<dict_qa, answers, prev_data, phase>>
    /\ UNCHANGED <<file, Main_dict_qa, arg, new_data, clipboard, own, wrote,
                   interrupted, extActive>>

\* ClipboardMonitor.__init__ followed by the call of start_monitoring.
ClipboardMonitor_init ==
    /\ pc = "construct"
    /\ IF valid_dict_qa(arg)
       THEN /\ dict_qa' = arg.items
            /\ answers' = values(arg.items)
            /\ prev_data' = EmptyStr
            /\ clipboard' = EmptyStr
            /\ own' = TRUE
            /\ phase' = "pristine"
            /\ pc' = "check"
       ELSE /\ pc' = "error"
            /\ UNCHANGED <<dict_qa, answers, prev_data, clipboard, own, phase>>
    /\ UNCHANGED <<file, Main_dict_qa, arg, new_data, wrote, interrupted, extActive>>

----------------------------------------------------------------------------
\* The poll loop.

\* check_clipboard, first half: new_data := pyperclip.paste()
paste ==
    /\ pc = "check"
    /\ new_data' = clipboard
    /\ wrote' = FALSE
    /\ phase' = CASE phase = "first" -> "firstRead"
                  [] phase = "firstDone" -> "later"
                  [] OTHER -> phase
    /\ pc' = "decide"
    /\ UNCHANGED <<file, Main_dict_qa, arg, dict_qa, answers, prev_data, clipboard,
                   own, interrupted, extActive>>

\* What the second half of check_clipboard leaves unchanged in every variant.
check_frame ==
    /\ new_data' = EmptyStr
    /\ phase' = IF phase = "firstRead" THEN "firstDone" ELSE phase
    /\ pc' = "sleep"
    /\ UNCHANGED <<file, Main_dict_qa, arg, dict_qa, answers, interrupted, extActive>>

\* A faulty variant of check_clipboard: the test "in self.answers" is missing.
check_clipboard_NoAnswerTest ==
    /\ pc = "decide"
    /\ IF new_data # prev_data
       THEN /\ prev_data' = new_data
            /\ clipboard' = get(dict_qa, new_data)
            /\ wrote' = TRUE
            /\ own' = TRUE
       ELSE UNCHANGED <<prev_data, clipboard, wrote, own>>
    /\ check_frame

\* A faulty variant of check_clipboard: the test against prev_data is missing.
check_clipboard_NoChangeTest ==
    /\ pc = "decide"
    /\ prev_data' = new_data
    /\ IF new_data \in answers
       THEN UNCHANGED <<clipboard, wrote, own>>
       ELSE /\ clipboard' = get(dict_qa, new_data)
            /\ wrote' = TRUE
            /\ own' = TRUE
    /\ check_frame

\* check_clipboard, second half: the comparison with prev_data, the
\* assignment to prev_data, the test against answers and pyperclip.copy.
check_clipboard ==
    /\ pc = "decide"
    /\ IF new_data # prev_data
       THEN /\ prev_data' = new_data
            /\ IF new_data \in answers
               THEN UNCHANGED <<clipboard, wrote, own>>
               ELSE /\ clipboard' = get(dict_qa, new_data)
                    /\ wrote' = TRUE
                    /\ own' = TRUE
       ELSE UNCHANGED <<prev_data, clipboard, wrote, own>>
    /\ check_frame

\* A faulty variant of sleep: the loop ends after one iteration.
sleep_Break ==
    /\ pc = "sleep"
    /\ pc' = "done"
    /\ UNCHANGED <<file, Main_dict_qa, arg, dict_qa, answers, prev_data, new_data,
                   clipboard, wrote, own, phase, interrupted, extActive>>

\* start_monitoring: time.sleep(0.5) returns and the loop starts over.
sleep ==
    /\ pc = "sleep"
    /\ pc' = "check"
    /\ UNCHANGED <<file, Main_dict_qa, arg, dict_qa, answers, prev_data, new_data,
                   clipboard, wrote, own, phase, interrupted, extActive>>

\* A faulty variant of KeyboardInterrupt: the try statement covers the sleep alone.
KeyboardInterrupt_SleepOnly ==
    /\ pc \in Loop
    /\ interrupted' = TRUE
    /\ new_data' = EmptyStr
    /\ pc' = IF pc = "sleep" THEN "done" ELSE "error"
    /\ UNCHANGED <<file, Main_dict_qa, arg, dict_qa, answers, prev_data, clipboard,
                   wrote, own, phase, extActive>>

\* start_monitoring: a KeyboardInterrupt raised inside the try statement,
\* in check_clipboard or in time.sleep, is caught and the loop is left.
KeyboardInterrupt ==
    /\ pc \in Loop
    /\ interrupted' = TRUE
    /\ new_data' = EmptyStr
    /\ pc' = "done"
    /\ UNCHANGED <<file, Main_dict_qa, arg, dict_qa, answers, prev_data, clipboard,
                   wrote, own, phase, extActive>>

\* Someone else (the user, another process) puts a text on the clipboard.
ExternalWrite ==
    /\ pc \in Loop
    /\ extActive
    /\ \E t \in Text : clipboard' = t
    /\ own' = FALSE
    /\ phase' = CASE phase = "pristine" -> "first"
                  [] phase \in {"first", "firstDone"} -> "later"
                  [] OTHER -> phase
    /\ UNCHANGED <<pc, file, Main_dict_qa, arg, dict_qa, answers, prev_data,
                   new_data, wrote, interrupted, extActive>>

\* The other writers stop writing for good.
ExternalStop ==
    /\ pc \in Loop
    /\ extActive
    /\ extActive' = FALSE
    /\ UNCHANGED <<pc, file, Main_dict_qa, arg, dict_qa, answers, prev_data,
                   new_data, clipboard, wrote, own, phase, interrupted>>

Next ==
    \/ Main_new
    \/ Main_main
    \/ ForeignCall
    \/ ClipboardMonitor_init
    \/ paste
    \/ check_clipboard
    \/ sleep
    \/ KeyboardInterrupt
    \/ ExternalWrite
    \/ ExternalStop

Spec == Init /\ [][Next]_vars

\* The interpreter keeps running the one thread of the program: each of its
\* steps is taken once it is due. Nothing is assumed of the other writers or
\* of the interrupt.
FairSpec ==
    /\ Spec
    /\ WF_vars(Main_new) /\ WF_vars(Main_main) /\ WF_vars(ClipboardMonitor_init)
    /\ WF_vars(paste) /\ WF_vars(check_clipboard) /\ WF_vars(sleep)

----------------------------------------------------------------------------
\* Properties.

\* The step in which the second half of check_clipboard runs, to its return.
\* In it new_data is the text the call has read, prev_data and clipboard are
\* lastSeen and the clipboard as the call finds them, the primed ones as it
\* leaves them, and wrote' tells whether it has called pyperclip.copy.
Decided == pc = "decide" /\ pc' = "sleep"

\* C1 as stated: whenever a check has read a key k of the mapping, whatever
\* lastSeen is, the clipboard holds dict_qa[k] when the check returns.
C1_AnyKeyIsAnswered ==
    [][(Decided /\ new_data \in DOMAIN dict_qa)
          => clipboard' = dict_qa[new_data]]_vars

\* C1 amended: whenever a check has read a key k of the mapping that differs
\* from lastSeen and is not a member of the answer set, the clipboard holds
\* dict_qa[k] when the check returns.
C1_NewKeyIsAnswered ==
    [][(Decided /\ new_data \in DOMAIN dict_qa
                /\ new_data # prev_data /\ new_data \notin answers)
          => clipboard' = dict_qa[new_data]]_vars

\* A check has returned after replacing a key by its answer.
C1_Witness ==
    /\ pc = "sleep" /\ wrote
    /\ prev_data \in DOMAIN dict_qa
    /\ prev_data \notin answers
    /\ clipboard = dict_qa[prev_data]
    /\ clipboard # NA

\* C2 as stated: whenever a check has read a text that is neither a key nor
\* an answer, whatever lastSeen is, the clipboard holds 'NA' when the check
\* returns.
C2_AnyUnknownIsMarked ==
    [][(Decided /\ new_data \notin DOMAIN dict_qa /\ new_data \notin answers)
          => clipboard' = NA]_vars

\* C2 amended: whenever a check has read a text that is neither a key nor an
\* answer and differs from lastSeen, the clipboard holds 'NA' when the check
\* returns.
C2_NewUnknownIsMarked ==
    [][(Decided /\ new_data \notin DOMAIN dict_qa /\ new_data \notin answers
                /\ new_data # prev_data)
          => clipboard' = NA]_vars

\* A check has returned after replacing an unknown text by 'NA'.
C2_Witness ==
    /\ pc = "sleep" /\ wrote
    /\ prev_data \notin DOMAIN dict_qa
    /\ prev_data \notin answers
    /\ prev_data # NA
    /\ clipboard = NA

\* C3: a check that has read a member of the answer set, be it a key of the
\* mapping too, does not call pyperclip.copy and leaves the clipboard as it is.
C3_AnswerIsLeftAlone ==
    [][(Decided /\ new_data \in answers)
          => (~wrote' /\ clipboard' = clipboard)]_vars

\* A check has returned after reading, as a new text, an answer that is also
\* a key mapped to another text, and the clipboard still holds it.
C3_Witness ==
    /\ pc = "sleep" /\ ~wrote
    /\ phase = "firstDone"
    /\ prev_data \in answers
    /\ prev_data \in DOMAIN dict_qa
    /\ dict_qa[prev_data] # prev_data
    /\ clipboard = prev_data

\* C4: a check that has read the very text lastSeen holds does not call
\* pyperclip.copy and leaves the clipboard, lastSeen, the mapping and the
\* answer set as they are.
C4_UnchangedIsNoOp ==
    [][(Decided /\ new_data = prev_data)
          => /\ ~wrote'
             /\ clipboard' = clipboard
             /\ prev_data' = prev_data
             /\ dict_qa' = dict_qa
             /\ answers' = answers]_vars

\* A check has returned without a write although the clipboard holds a text
\* that is no answer: it is the text seen last.
C4_Witness ==
    /\ pc = "sleep" /\ ~wrote
    /\ phase = "later"
    /\ clipboard = prev_data
    /\ prev_data \notin answers
    /\ prev_data \in DOMAIN dict_qa

\* C5 as stated: whenever a check writes the clipboard, the content it
\* replaces is no member of the answer set, other writers writing between
\* its read and its write or not.
C5_NeverReplacesAnAnswer ==
    [][(Decided /\ wrote') => clipboard \notin answers]_vars

\* C5 amended: whenever a check writes the clipboard, the content it has read
\* is no member of the answer set; so the content it replaces is none unless
\* another writer has changed the clipboard since the read.
C5_NeverReplacesAnAnswerItRead ==
    [][(Decided /\ wrote')
          => /\ new_data \notin answers
             /\ (clipboard = new_data => clipboard \notin answers)]_vars

\* A check has written over a text that no one else had touched since it was
\* read, with a mapping that has answers.
C5_Witness ==
    /\ pc = "sleep" /\ wrote /\ own
    /\ answers # {}
    /\ prev_data \notin answers
    /\ clipboard \in answers

\* dict_qa.txt holds a mapping of texts to texts.
FileGood ==
    /\ file.kind = "object"
    /\ \A k \in DOMAIN file.items : k \in Text /\ file.items[k] \in Text

\* The argument of the constructor is a mapping of texts to texts.
ArgGood ==
    /\ arg.isdict
    /\ \A k \in DOMAIN arg.items : k \in Text /\ arg.items[k] \in Text

\* C6: with dict_qa.txt missing or no mapping of texts to texts, or with a
\* constructor argument that is none, the program never gets past the
\* construction; and where the program has ended in an error the monitor has
\* neither read nor written the clipboard.
C6_InitFailureIsFatal ==
    /\ (pc \in Loop \cup {"done"}) => (FileGood /\ ArgGood)
    /\ (~FileGood /\ pc \notin {"import", "main", "construct"}) => pc = "error"
    /\ (~ArgGood /\ pc \notin {"import", "main", "construct"}) => pc = "error"
    /\ pc = "error" => (phase = "init" /\ ~own /\ ~wrote /\ new_data = EmptyStr)

\* The program has ended in an error raised by the constructor for a value
\* of the file that is no text.
C6_Witness ==
    /\ pc = "error"
    /\ arg.isdict
    /\ \E k \in DOMAIN arg.items : arg.items[k] = NonStr

\* C7: the loop goes from the check to the sleep and from the sleep to the
\* check; it is left only by an interrupt; an interrupt in the check or in
\* the sleep ends it without an error; after it the monitor does nothing.
C7_LoopUntilInterrupt ==
    /\ [](pc = "done" => interrupted)
    /\ [][/\ (~interrupted /\ interrupted') => (pc \in Loop /\ pc' = "done")
          /\ (~interrupted' /\ pc = "check") => pc' \in {"check", "decide"}
          /\ (~interrupted' /\ pc = "decide") => pc' \in {"decide", "sleep"}
          /\ (~interrupted' /\ pc = "sleep") => pc' \in {"sleep", "check"}
          /\ interrupted => /\ pc = "done" /\ pc' = "done"
                            /\ UNCHANGED <<clipboard, prev_data, new_data, wrote>>
         ]_vars
    /\ []((pc \in Loop) => <>(pc = "check" \/ interrupted))
    /\ []((pc \in Loop) => <>(pc = "sleep" \/ interrupted))

\* The loop was left by an interrupt that came during a check, after the
\* check had read a text it would have replaced.
C7_Witness ==
    /\ pc = "done" /\ interrupted
    /\ ~wrote
    /\ clipboard # prev_data
    /\ clipboard \in DOMAIN dict_qa
    /\ phase = "firstRead"

\* What C8 says of the state the constructor leaves.
C8_Pristine ==
    (pc \in Loop /\ phase = "pristine")
        => (prev_data = EmptyStr /\ clipboard = EmptyStr /\ own)

\* C8 as stated: the constructor leaves lastSeen and the clipboard empty, and
\* the check that reads the first text copied afterwards, whatever text it is,
\* finds it different from lastSeen, stores it in lastSeen and handles it.
C8_FirstCopyIsNew ==
    /\ []C8_Pristine
    /\ [][(Decided /\ phase = "firstRead")
             => /\ new_data # prev_data
                /\ prev_data' = new_data
                /\ (wrote' \/ new_data \in answers)]_vars

\* C8 amended: the same for a first text that is not the empty text.
C8_FirstNonEmptyCopyIsNew ==
    /\ []C8_Pristine
    /\ [][(Decided /\ phase = "firstRead" /\ new_data # EmptyStr)
             => /\ new_data # prev_data
                /\ prev_data' = new_data
                /\ (wrote' \/ new_data \in answers)]_vars

\* The check after the first copy has returned: it has stored the text and
\* replaced it.
C8_Witness ==
    /\ pc = "sleep" /\ phase = "firstDone"
    /\ wrote
    /\ prev_data # EmptyStr

\* C9 as stated: a check never writes the clipboard while the clipboard's
\* content is the monitor's own last write, untouched by anyone else.
C9_NeverReactsToOwnOutput ==
    [][(Decided /\ wrote') => ~own]_vars

\* The monitor has come to rest.
Quiet == clipboard = prev_data /\ ~wrote

\* C10: once the other writers have stopped, the loop, unless interrupted,
\* comes to a state from which on the clipboard equals lastSeen and no check
\* writes.
C10_NoToggling ==
    (~extActive) ~> (pc = "done" \/ []Quiet)

\* The writers have stopped and a check has found nothing to do: the loop
\* rests on an answer, here the one mapped to 'NA'.
C10_Witness ==
    /\ ~extActive
    /\ pc = "sleep" /\ Quiet
    /\ phase = "later"
    /\ prev_data \in answers
    /\ NA \in DOMAIN dict_qa /\ dict_qa[NA] = prev_data
    /\ prev_data # NA

====
